---- MODULE Spec2Model ----
(***************************************************************************)
(* create_repo.py: a provisioning script that creates a GitHub repository  *)
(* under an organization or the authenticated user, seeds branches,        *)
(* creates teams, writes CODEOWNERS and a CI workflow, and protects        *)
(* branches.  The hosting platform is part of the state; every API call    *)
(* the script issues is appended to `calls`.                               *)
(***************************************************************************)
EXTENDS Integers, Sequences, FiniteSets, TLC

\* ------------------------------------------------------------------ bounds
\* Number of consecutive runs of the script against the same platform.
MaxRuns == 2
\* Number of API calls (over all runs) that the platform fails although the
\* request was valid (rate limit, outage, permission): GithubException 500.
MaxFailures == 1

\* ------------------------------------------------------- program constants
\* e.status of a lookup of something absent, and of a create of something
\* present.  A successful call has status 200; a call the platform fails for
\* another reason has status 500.
NotFound == 404
Conflict == 422

README == "README.md"
CODEOWNERS == ".github/CODEOWNERS"
WORKFLOW == ".github/workflows/build.yml"
Paths == {README, CODEOWNERS, WORKFLOW}

\* A text is a sequence of chunks; "," and " " are the separator and the
\* whitespace, every other chunk is a run of name characters.
NoneEnv == <<"None">>
DefaultBranchNames == <<"dev", ",", "qa">>

\* ------------------------------------------------------------------ inputs
TokenValues == {"None", "", "tok"}
OwnerValues == {"None", "", "acme"}
RepoValues == {"None", "", "svc"}
BranchEnvs ==
  { NoneEnv,
    <<"dev", ",", "qa", ",", "main">>,
    <<"dev", ",", " ", "qa", ",", "stg">>,
    <<"stg", ",", ",", "stg">>,
    <<" ">> }
UsersEnvs == { NoneEnv, <<"alice">>, <<"alice", ",", " ", "bob">> }
OwnerKinds == {"organization", "self", "other_user", "absent"}
\* The name the platform gives the branch of an auto-initialised repository
\* (an account setting).
DefaultBranches == {"main", "dev"}
\* Teams the organization may already have.
TeamsBefore == { {}, {"L1"} }

\* ----------------------------------------------------------- pure helpers
\* str.split(","): the tokens between separators; "" splits to [""].
RECURSIVE Split(_)
Split(s) ==
  IF \E k \in 1..Len(s) : s[k] = ","
  THEN LET k == CHOOSE j \in 1..Len(s) :
                  s[j] = "," /\ \A h \in 1..(j - 1) : s[h] # ","
       IN <<SubSeq(s, 1, k - 1)>> \o Split(SubSeq(s, k + 1, Len(s)))
  ELSE <<s>>

\* str.strip(): leading and trailing whitespace removed.
RECURSIVE Strip(_)
Strip(t) ==
  IF t = <<>> THEN t
  ELSE IF Head(t) = " " THEN Strip(Tail(t))
  ELSE IF t[Len(t)] = " " THEN Strip(SubSeq(t, 1, Len(t) - 1))
  ELSE t

\* The string a stripped token denotes (the tokens of the inputs above have a
\* single run of name characters).
Text(t) == t[1]

\* Mutant: [x for x in s.split(",") if x.strip()] -- the kept token is not
\* stripped.
RECURSIVE StripAllNoStrip(_)
StripAllNoStrip(toks) ==
  IF toks = <<>> THEN <<>>
  ELSE IF Strip(Head(toks)) # <<>>
       THEN <<Text(Head(toks))>> \o StripAllNoStrip(Tail(toks))
       ELSE StripAllNoStrip(Tail(toks))

\* [x.strip() for x in s.split(",") if x.strip()]
RECURSIVE StripAll(_)
StripAll(toks) ==
  IF toks = <<>> THEN <<>>
  ELSE IF Strip(Head(toks)) # <<>>
       THEN <<Text(Strip(Head(toks)))>> \o StripAll(Tail(toks))
       ELSE StripAll(Tail(toks))

ParseList(s) == StripAll(Split(s))

\* os.getenv(name, default)
GetEnv(v, default) == IF v = NoneEnv THEN default ELSE v

\* str.lower() on the team names that occur.
Lower(s) == CASE s = "L1" -> "l1" [] s = "L2" -> "l2" [] OTHER -> s

\* Python truthiness of an optional string.
Truthy(v) == v \notin {"None", ""}

\* File contents.  The platform stores base64 of the UTF-8 bytes.
Absent == <<>>
Utf8(c) == <<"utf8">> \o c
B64(b) == <<"b64">> \o b
Encode(c) == B64(Utf8(c))
decoded_content(e) == Tail(e)
decode(b) == Tail(b)
\* blob hash of a stored file
BlobSha(e) == <<"sha">> \o e

readme_content == <<"readme">>
codeowners_content(org_name) == <<"codeowners", org_name>>
workflow_content == <<"build.yml">>

Range(s) == { s[k] : k \in 1..Len(s) }

\* ------------------------------------------------------------------- state
VARIABLES
  env,              \* the environment variables of the process
  ownerKind,        \* what OWNER_NAME is on the platform
  platformDefault,  \* default-branch name the platform gives a new repository
  teams,            \* the organization's teams: name -> [members, permission]
  repo,             \* the repository REPO_NAME under the target
  run,              \* number of the current run
  pc,               \* position of the current run in main()
  calls,            \* API calls issued by the current run, in order
  failures,         \* calls failed by the platform so far
  is_organization, target, users, branch_names, source_sha,
  idx,              \* index of the innermost for loop
  tidx,             \* index of the teams_config loop
  team, file_content,
  outcome,          \* which return of main() the run took
  ended             \* one record per finished run

platform == <<env, ownerKind, platformDefault>>
remote == <<teams, repo>>
locals == <<is_organization, target, users, branch_names, source_sha, team,
            file_content>>
control == <<pc, idx, tidx, outcome>>
vars == <<platform, remote, run, calls, failures, locals, control, ended>>

NoRepo == [exists |-> FALSE, default_branch |-> "None", files |-> <<>>,
           protection |-> <<>>]

Init ==
  /\ env \in [GITHUB_TOKEN : TokenValues, OWNER_NAME : OwnerValues,
               REPO_NAME : RepoValues, BRANCH_NAMES : BranchEnvs,
               USERS : UsersEnvs]
  /\ ownerKind \in OwnerKinds
  /\ platformDefault \in DefaultBranches
  /\ \E before \in TeamsBefore :
        /\ before # {} => ownerKind = "organization"
        /\ teams = [t \in before |-> [members |-> {}, permission |-> "none"]]
  /\ repo = NoRepo
  /\ run = 1
  /\ pc = "main"
  /\ calls = <<>>
  /\ failures = 0
  /\ is_organization = FALSE
  /\ target = "None"
  /\ users = <<>>
  /\ branch_names = <<>>
  /\ source_sha = <<>>
  /\ idx = 1
  /\ tidx = 1
  /\ team = "None"
  /\ file_content = <<>>
  /\ outcome = "running"
  /\ ended = <<>>

\* ------------------------------------------------------------ the platform
\* The statuses a call can end with: the one the platform's state dictates,
\* or, for a call that would succeed, a failure while failures remain.
Results(natural) ==
  IF natural = 200 /\ failures < MaxFailures THEN {200, 500} ELSE {natural}

\* A logged call; `at` is the place in the program that issued it.
Call(op, arg, status) ==
  [op |-> op, arg |-> arg, status |-> status, sha |-> <<>>, content |-> <<>>,
   at |-> pc]
FileCall(op, path, ref, status, sha, content) ==
  [op |-> op, arg |-> <<path, ref>>, status |-> status, sha |-> sha,
   content |-> content, at |-> pc]

\* Calls that change the platform's state.
MutatingOps ==
  {"create_repo", "create_git_ref", "create_team", "add_to_repos",
   "set_repo_permission", "add_membership", "update_file", "create_file",
   "edit_protection"}

\* Issue one call with the given status.
Issue(c, natural) ==
  /\ calls' = Append(calls, c)
  /\ failures' = IF natural = 200 /\ c.status # 200 THEN failures + 1
                 ELSE failures

\* An auto-initialised repository: one branch holding the README.
NewRepo ==
  [exists |-> TRUE, default_branch |-> platformDefault,
   files |-> (platformDefault :>
                [p \in Paths |-> IF p = README THEN Encode(readme_content)
                                 ELSE Absent]),
   protection |-> <<>>]

BranchExists(b) == repo.exists /\ b \in DOMAIN repo.files
FilePresent(ref, path) == BranchExists(ref) /\ repo.files[ref][path] # Absent
WriteFile(ref, path, content) ==
  [repo EXCEPT !.files[ref][path] = Encode(content)]

\* ------------------------------------------------------ control-flow glue
\* Mutant: l1 is given every user.
teams_config_l1_all(us) ==
  << [name |-> "l1", members |-> us],
     [name |-> "l2", members |-> us] >>

teams_config(us) ==
  << [name |-> "l1", members |-> <<us[1]>>],
     [name |-> "l2", members |-> us] >>

\* The branches add_ci_workflow syncs to, and the protections table.
sync_branches == <<"dev", "qa">>
protections ==
  << [branch |-> "dev", review_count |-> 1, code_owner |-> TRUE],
     [branch |-> "qa", review_count |-> 1, code_owner |-> TRUE],
     [branch |-> "main", review_count |-> 2, code_owner |-> TRUE] >>

\* Mutant: CODEOWNERS is nested under `if users`.
AfterBranchesCodeownersUnderUsers ==
  IF is_organization /\ users # <<>> THEN "get_teams" ELSE "add_ci_workflow"

\* Mutant: the organization test is left out.
AfterBranchesAnyOwner ==
  IF users # <<>> THEN "get_teams" ELSE "add_codeowners"

\* main(), after create_branches: which step comes next.
AfterBranches ==
  IF is_organization
  THEN IF users # <<>> THEN "get_teams" ELSE "add_codeowners"
  ELSE "add_ci_workflow"

Return(o) == pc' = "return" /\ outcome' = o /\ UNCHANGED <<idx, tidx>>

\* Continue at a label; the loop labels advance their loop or leave it.
Goto(l) ==
  /\ outcome' = IF l = "protect_next" /\ idx >= Len(protections)
                THEN "completed" ELSE outcome
  /\ CASE l = "after_branches" ->
            pc' = AfterBranches /\ idx' = 1 /\ tidx' = 1
       [] l = "next_team" ->
            IF tidx < Len(teams_config(users))
            THEN pc' = "get_teams" /\ idx' = 1 /\ tidx' = tidx + 1
            ELSE pc' = "add_codeowners" /\ idx' = 1 /\ tidx' = tidx
       [] l \in {"create_git_ref", "add_membership"} ->
            pc' = l /\ idx' = 1 /\ tidx' = tidx
       [] l = "ci_sync" ->
            pc' = "ci_get_branch" /\ idx' = 1 /\ tidx' = tidx
       [] l = "ci_next" ->
            IF idx < Len(sync_branches)
            THEN pc' = "ci_get_branch" /\ idx' = idx + 1 /\ tidx' = tidx
            ELSE pc' = "protect_get_branch" /\ idx' = 1 /\ tidx' = tidx
       [] l = "enable_branch_protection" ->
            pc' = "protect_get_branch" /\ idx' = 1 /\ tidx' = tidx
       [] l = "protect_next" ->
            IF idx < Len(protections)
            THEN pc' = "protect_get_branch" /\ idx' = idx + 1 /\ tidx' = tidx
            ELSE pc' = "return" /\ idx' = idx /\ tidx' = tidx
       [] OTHER -> pc' = l /\ idx' = idx /\ tidx' = tidx

\* ------------------------------------------------------------------ main()
\* Mutant: the check forgets REPO_NAME.
ConfigCompleteNoRepo(e) == Truthy(e.GITHUB_TOKEN) /\ Truthy(e.OWNER_NAME)

\* if not all([github_token, owner_name, repo_name])
ConfigComplete(e) ==
  Truthy(e.GITHUB_TOKEN) /\ Truthy(e.OWNER_NAME) /\ Truthy(e.REPO_NAME)

ReadConfig ==
  /\ pc = "main"
  /\ IF ~ConfigComplete(env)
     THEN Return("missing_env") /\ users' = users
     ELSE /\ users' = LET users_env == GetEnv(env.USERS, <<>>)
                      IN IF users_env # <<>> THEN ParseList(users_env)
                         ELSE <<>>
          /\ Goto("get_organization")
  /\ UNCHANGED <<platform, remote, run, calls, failures, ended,
                 is_organization, target, branch_names, source_sha, team,
                 file_content>>

GetOrganization ==
  /\ pc = "get_organization"
  /\ LET natural == IF ownerKind = "organization" THEN 200 ELSE NotFound
     IN \E st \in Results(natural) :
          /\ Issue(Call("get_organization", <<env.OWNER_NAME>>, st), natural)
          /\ IF st = 200
             THEN /\ is_organization' = TRUE
                  /\ target' = "organization"
                  /\ Goto("get_repos")
             ELSE /\ UNCHANGED <<is_organization, target>>
                  /\ Goto("get_user")
  /\ UNCHANGED <<platform, remote, run, ended, users, branch_names,
                 source_sha, team, file_content>>

\* g.get_user(owner_name): an organization's name resolves as an account too.
GetUser ==
  /\ pc = "get_user"
  /\ LET natural == IF ownerKind = "absent" THEN NotFound ELSE 200
     IN \E st \in Results(natural) :
          /\ Issue(Call("get_user", <<env.OWNER_NAME>>, st), natural)
          /\ IF st = 200 THEN Goto("check_login")
             ELSE Return("owner_failed")
  /\ UNCHANGED <<platform, remote, run, ended, locals>>

\* Mutant: the login comparison is left out.
LoginNeverDiffers(kind) == FALSE

\* owner.login != authenticated_user.login
LoginDiffers(kind) == kind # "self"

\* authenticated_user is fetched when its login is first read.
CheckLogin ==
  /\ pc = "check_login"
  /\ \E st \in Results(200) :
       /\ Issue(Call("get_authenticated_user", <<>>, st), 200)
       /\ IF st # 200
          THEN Return("owner_failed") /\ target' = target
          ELSE IF LoginDiffers(ownerKind)
          THEN Return("auth_mismatch") /\ target' = target
          ELSE target' = "authenticated_user" /\ Goto("get_repos")
  /\ UNCHANGED <<platform, remote, run, ended, is_organization, users,
                 branch_names, source_sha, team, file_content>>

\* Mutant: a failure of the listing ends the run.
GetReposListingFatal ==
  /\ pc = "get_repos"
  /\ \E st \in Results(200) :
       /\ Issue(Call("get_repos", <<target>>, st), 200)
       /\ IF st # 200 THEN Return("create_failed")
          ELSE IF repo.exists THEN Return("already_exists")
          ELSE Goto("create_repo")
  /\ UNCHANGED <<platform, remote, run, ended, locals>>

GetRepos ==
  /\ pc = "get_repos"
  /\ \E st \in Results(200) :
       /\ Issue(Call("get_repos", <<target>>, st), 200)
       /\ IF st = 200 /\ repo.exists
          THEN Return("already_exists")
          ELSE Goto("create_repo")
  /\ UNCHANGED <<platform, remote, run, ended, locals>>

CreateRepo ==
  /\ pc = "create_repo"
  /\ LET natural == IF repo.exists THEN Conflict ELSE 200
     IN \E st \in Results(natural) :
          /\ Issue(Call("create_repo", <<target, env.REPO_NAME>>, st), natural)
          /\ IF st = 200
             THEN repo' = NewRepo /\ Goto("create_branches")
             ELSE repo' = repo /\ Return("create_failed")
  /\ UNCHANGED <<platform, teams, run, ended, locals>>

\* ------------------------------------------------------- create_branches()
CreateBranchesBegin ==
  /\ pc = "create_branches"
  /\ LET names == ParseList(GetEnv(env.BRANCH_NAMES, DefaultBranchNames))
     IN /\ branch_names' = names
        /\ IF names = <<>>
           THEN /\ UNCHANGED <<calls, failures, source_sha>>
                /\ Goto("after_branches")
           ELSE \E st \in Results(200) :
                  /\ Issue(Call("get_branch", <<repo.default_branch>>, st), 200)
                  /\ IF st = 200
                     THEN /\ source_sha' = repo.files[repo.default_branch]
                          /\ Goto("create_git_ref")
                     ELSE /\ source_sha' = source_sha
                          /\ Goto("after_branches")
  /\ UNCHANGED <<platform, remote, run, ended, is_organization, target, users,
                 team, file_content>>

\* Mutant: an error other than 422 leaves the loop for the outer handler.
AfterRefFailureAbort(st) == IF st = Conflict THEN "continue" ELSE "after_branches"

\* except GithubException inside the branch loop: 422 or not, the loop goes on.
AfterRefFailure(st) == "continue"

CreateGitRef ==
  /\ pc = "create_git_ref"
  /\ LET branch_name == branch_names[idx]
         natural == IF BranchExists(branch_name) THEN Conflict ELSE 200
     IN \E st \in Results(natural) :
          /\ Issue(Call("create_git_ref", <<branch_name>>, st), natural)
          /\ repo' = IF st = 200
                     THEN [repo EXCEPT !.files = @ @@ (branch_name :> source_sha)]
                     ELSE repo
          /\ IF st # 200 /\ AfterRefFailure(st) # "continue"
             THEN Goto(AfterRefFailure(st))
             ELSE IF idx < Len(branch_names)
             THEN pc' = pc /\ idx' = idx + 1 /\ UNCHANGED <<tidx, outcome>>
             ELSE Goto("after_branches")
  /\ UNCHANGED <<platform, teams, run, ended, locals>>

\* ------------------------------------------ create_teams_and_add_members()
team_config == teams_config(users)[tidx]

\* for t in org.get_teams(): if t.name.lower() == team_name.lower()
FindTeam(team_name) ==
  { t \in DOMAIN teams : Lower(t) = Lower(team_name) }

GetTeams ==
  /\ pc = "get_teams"
  /\ \E st \in Results(200) :
       /\ Issue(Call("get_teams", <<team_config.name>>, st), 200)
       /\ IF st # 200 THEN team' = team /\ Goto("next_team")
          ELSE IF FindTeam(team_config.name) # {}
          THEN /\ team' = CHOOSE t \in FindTeam(team_config.name) : TRUE
               /\ Goto("add_to_repos")
          ELSE team' = team /\ Goto("create_team")
  /\ UNCHANGED <<platform, remote, run, ended, is_organization, target, users,
                 branch_names, source_sha, file_content>>

CreateTeam ==
  /\ pc = "create_team"
  /\ \E st \in Results(200) :
       /\ Issue(Call("create_team", <<team_config.name>>, st), 200)
       /\ IF st = 200
          THEN /\ teams' = teams @@ (team_config.name :>
                              [members |-> {}, permission |-> "none"])
               /\ team' = team_config.name
               /\ Goto("add_to_repos")
          ELSE UNCHANGED <<teams, team>> /\ Goto("next_team")
  /\ UNCHANGED <<platform, repo, run, ended, is_organization, target, users,
                 branch_names, source_sha, file_content>>

AddToRepos ==
  /\ pc = "add_to_repos"
  /\ \E st \in Results(200) :
       /\ Issue(Call("add_to_repos", <<team_config.name>>, st), 200)
       /\ IF st = 200
          THEN /\ teams' = [teams EXCEPT ![team].permission =
                              IF @ = "none" THEN "pull" ELSE @]
               /\ Goto("set_repo_permission")
          ELSE teams' = teams /\ Goto("next_team")
  /\ UNCHANGED <<platform, repo, run, ended, locals>>

SetRepoPermission ==
  /\ pc = "set_repo_permission"
  /\ \E st \in Results(200) :
       /\ Issue(Call("set_repo_permission", <<team_config.name>>, st), 200)
       /\ IF st = 200
          THEN /\ teams' = [teams EXCEPT ![team].permission = "push"]
               /\ Goto("add_membership")
          ELSE teams' = teams /\ Goto("next_team")
  /\ UNCHANGED <<platform, repo, run, ended, locals>>

\* Mutant: the failure leaves the members loop for the team's handler.
AfterMemberFailureAbort == "next_team"

\* except GithubException inside the members loop: the loop goes on.
AfterMemberFailure == "continue"

AddMembership ==
  /\ pc = "add_membership"
  /\ LET username == team_config.members[idx]
     IN \E st \in Results(200) :
          /\ Issue(Call("add_membership", <<team_config.name, username>>, st),
                   200)
          /\ teams' = IF st = 200
                      THEN [teams EXCEPT ![team].members = @ \cup {username}]
                      ELSE teams
          /\ IF st # 200 /\ AfterMemberFailure # "continue"
             THEN Goto(AfterMemberFailure)
             ELSE IF idx < Len(team_config.members)
             THEN pc' = pc /\ idx' = idx + 1 /\ UNCHANGED <<tidx, outcome>>
             ELSE Goto("next_team")
  /\ UNCHANGED <<platform, repo, run, ended, locals>>

\* ----------------------------------------------------- create-or-update
\* try: contents = repo.get_contents(path, ref); repo.update_file(..., sha=
\* contents.sha, ...)  -- `done` follows the update, `handler` is the except
\* clause, entered when either call raises.
TryUpdate(path, ref, content, done, handler) ==
  LET found == IF FilePresent(ref, path) THEN 200 ELSE NotFound
  IN \E g \in Results(found) :
       IF g = 200
       THEN LET sha == BlobSha(repo.files[ref][path])
            IN \E u \in Results(200) :
                 /\ calls' = calls \o
                      << FileCall("get_contents", path, ref, g, <<>>, <<>>),
                         FileCall("update_file", path, ref, u, sha, content) >>
                 /\ failures' = IF u = 200 THEN failures ELSE failures + 1
                 /\ repo' = IF u = 200 THEN WriteFile(ref, path, content)
                            ELSE repo
                 /\ Goto(IF u = 200 THEN done ELSE handler)
       ELSE /\ Issue(FileCall("get_contents", path, ref, g, <<>>, <<>>), found)
            /\ repo' = repo
            /\ Goto(handler)

\* repo.create_file(path, message, content, branch)
CreateFile(path, ref, content, done, failed) ==
  LET natural == IF ~BranchExists(ref) THEN NotFound
                 ELSE IF FilePresent(ref, path) THEN Conflict ELSE 200
  IN \E st \in Results(natural) :
       /\ Issue(FileCall("create_file", path, ref, st, <<>>, content), natural)
       /\ repo' = IF st = 200 THEN WriteFile(ref, path, content) ELSE repo
       /\ Goto(IF st = 200 THEN done ELSE failed)

\* --------------------------------------------------------- add_codeowners()
CodeownersTryUpdate ==
  /\ pc = "add_codeowners"
  /\ TryUpdate(CODEOWNERS, repo.default_branch,
               codeowners_content(env.OWNER_NAME),
               "add_ci_workflow", "codeowners_create")
  /\ UNCHANGED <<platform, teams, run, ended, locals>>

CodeownersCreate ==
  /\ pc = "codeowners_create"
  /\ CreateFile(CODEOWNERS, repo.default_branch,
                codeowners_content(env.OWNER_NAME),
                "add_ci_workflow", "add_ci_workflow")
  /\ UNCHANGED <<platform, teams, run, ended, locals>>

\* -------------------------------------------------------- add_ci_workflow()
WorkflowTryUpdate ==
  /\ pc = "add_ci_workflow"
  /\ TryUpdate(WORKFLOW, repo.default_branch, workflow_content,
               "ci_sync", "workflow_create")
  /\ UNCHANGED <<platform, teams, run, ended, locals>>

\* Mutant: a failed create on the default branch still enters the sync loop.
WorkflowCreateThenSync ==
  /\ pc = "workflow_create"
  /\ CreateFile(WORKFLOW, repo.default_branch, workflow_content,
                "ci_sync", "ci_sync")
  /\ UNCHANGED <<platform, teams, run, ended, locals>>

WorkflowCreate ==
  /\ pc = "workflow_create"
  /\ CreateFile(WORKFLOW, repo.default_branch, workflow_content,
                "ci_sync", "enable_branch_protection")
  /\ UNCHANGED <<platform, teams, run, ended, locals>>

SyncGetBranch ==
  /\ pc = "ci_get_branch"
  /\ LET branch_name == sync_branches[idx]
         natural == IF BranchExists(branch_name) THEN 200 ELSE NotFound
     IN \E st \in Results(natural) :
          /\ Issue(Call("get_branch", <<branch_name>>, st), natural)
          /\ Goto(IF st = 200 THEN "ci_get_default" ELSE "ci_next")
  /\ UNCHANGED <<platform, remote, run, ended, locals>>

SyncGetDefault ==
  /\ pc = "ci_get_default"
  /\ LET natural == IF FilePresent(repo.default_branch, WORKFLOW) THEN 200
                    ELSE NotFound
     IN \E st \in Results(natural) :
          /\ Issue(FileCall("get_contents", WORKFLOW, repo.default_branch, st,
                            <<>>, <<>>), natural)
          /\ IF st = 200
             THEN /\ file_content' = repo.files[repo.default_branch][WORKFLOW]
                  /\ Goto("ci_try_update")
             ELSE file_content' = file_content /\ Goto("ci_next")
  /\ UNCHANGED <<platform, remote, run, ended, is_organization, target, users,
                 branch_names, source_sha, team>>

\* content=file_content.decoded_content.decode('utf-8')
SyncContent == decode(decoded_content(file_content))

SyncTryUpdate ==
  /\ pc = "ci_try_update"
  /\ TryUpdate(WORKFLOW, sync_branches[idx], SyncContent,
               "ci_next", "ci_create")
  /\ UNCHANGED <<platform, teams, run, ended, locals>>

SyncCreate ==
  /\ pc = "ci_create"
  /\ CreateFile(WORKFLOW, sync_branches[idx], SyncContent,
                "ci_next", "ci_next")
  /\ UNCHANGED <<platform, teams, run, ended, locals>>

\* ----------------------------------------------- enable_branch_protection()
\* Mutant: the protection is applied whatever the lookup said.
AfterLookupAlways(st) == "edit_protection"

\* branch = repo.get_branch(...) raised: edit_protection is skipped.
AfterLookup(st) == IF st = 200 THEN "edit_protection" ELSE "protect_next"

ProtectGetBranch ==
  /\ pc = "protect_get_branch"
  /\ LET branch_name == protections[idx].branch
         natural == IF BranchExists(branch_name) THEN 200 ELSE NotFound
     IN \E st \in Results(natural) :
          /\ Issue(Call("get_branch", <<branch_name>>, st), natural)
          /\ Goto(AfterLookup(st))
  /\ UNCHANGED <<platform, remote, run, ended, locals>>

\* Mutant: administrators are not bound.
PolicyAdminsExempt(protection) ==
  [strict |-> TRUE, contexts |-> {"build"}, enforce_admins |-> FALSE,
   require_code_owner_reviews |-> protection.code_owner,
   required_approving_review_count |-> protection.review_count]

Policy(protection) ==
  [strict |-> TRUE, contexts |-> {"build"}, enforce_admins |-> TRUE,
   require_code_owner_reviews |-> protection.code_owner,
   required_approving_review_count |-> protection.review_count]

EditProtection ==
  /\ pc = "edit_protection"
  /\ LET protection == protections[idx]
         natural == IF BranchExists(protection.branch) THEN 200 ELSE NotFound
     IN \E st \in Results(natural) :
          /\ Issue(Call("edit_protection", <<protection.branch>>, st), natural)
          /\ repo' = IF st = 200
                     THEN [repo EXCEPT !.protection =
                             [b \in (DOMAIN @) \cup {protection.branch} |->
                                IF b = protection.branch
                                THEN Policy(protection) ELSE @[b]]]
                     ELSE repo
          /\ Goto("protect_next")
  /\ UNCHANGED <<platform, teams, run, ended, locals>>

\* ------------------------------------------------------- end of the process
\* main() returned: the interpreter exits with status 0.
ExitStatus(o) == 0

Exit ==
  /\ pc = "return"
  /\ pc' = "exited"
  /\ ended' = Append(ended, [outcome |-> outcome,
                             exit_status |-> ExitStatus(outcome),
                             repo |-> repo, teams |-> teams])
  /\ UNCHANGED <<platform, remote, run, calls, failures, locals, idx, tidx,
                 outcome>>

\* The script is started again against the same platform.
NewRun ==
  /\ pc = "exited"
  /\ run < MaxRuns
  /\ run' = run + 1
  /\ pc' = "main"
  /\ calls' = <<>>
  /\ is_organization' = FALSE
  /\ target' = "None"
  /\ users' = <<>>
  /\ branch_names' = <<>>
  /\ source_sha' = <<>>
  /\ idx' = 1
  /\ tidx' = 1
  /\ team' = "None"
  /\ file_content' = <<>>
  /\ outcome' = "running"
  /\ UNCHANGED <<platform, remote, failures, ended>>

Next ==
  \/ ReadConfig \/ GetOrganization \/ GetUser \/ CheckLogin \/ GetRepos
  \/ CreateRepo \/ CreateBranchesBegin \/ CreateGitRef
  \/ GetTeams \/ CreateTeam \/ AddToRepos \/ SetRepoPermission
  \/ AddMembership
  \/ CodeownersTryUpdate \/ CodeownersCreate
  \/ WorkflowTryUpdate \/ WorkflowCreate
  \/ SyncGetBranch \/ SyncGetDefault \/ SyncTryUpdate \/ SyncCreate
  \/ ProtectGetBranch \/ EditProtection
  \/ Exit \/ NewRun

Spec == Init /\ [][Next]_vars

TypeOK ==
  /\ pc \in {"main", "get_organization", "get_user", "check_login",
             "get_repos", "create_repo", "create_branches", "create_git_ref",
             "get_teams", "create_team", "add_to_repos",
             "set_repo_permission", "add_membership", "add_codeowners",
             "codeowners_create", "add_ci_workflow", "workflow_create",
             "ci_get_branch", "ci_get_default", "ci_try_update", "ci_create",
             "protect_get_branch", "edit_protection", "return", "exited"}
  /\ failures \in 0..MaxFailures
  /\ run \in 1..MaxRuns

\* =================================================================== claims
Calls(op) == { k \in DOMAIN calls : calls[k].op = op }
Mutations == { k \in DOMAIN calls : calls[k].op \in MutatingOps }
Failed == { k \in DOMAIN calls : calls[k].status = 500 }
Attempted(op, arg) == \E k \in Calls(op) : calls[k].arg = arg
Succeeded(op, arg) ==
  \E k \in Calls(op) : calls[k].arg = arg /\ calls[k].status = 200

\* The repository was on the platform when the current run began.
RepoExistedAtStart == run > 1 /\ Len(ended) >= run - 1 /\ ended[run - 1].repo.exists
\* The list of existing repositories was read and held the name.
LookupFoundRepo ==
  RepoExistedAtStart /\ \E k \in Calls("get_repos") : calls[k].status = 200
RepoCreated == \E k \in Calls("create_repo") : calls[k].status = 200

SeedingAttempted == Calls("create_git_ref") # {}
WorkflowSyncAttempted ==
  \E k \in DOMAIN calls : calls[k].op \in {"get_contents", "create_file"}
                          /\ calls[k].arg[1] = WORKFLOW
ProtectionAttempted ==
  \A n \in 1..Len(protections) :
    \E k \in Calls("get_branch") :
      /\ calls[k].arg = <<protections[n].branch>>
      /\ \A j \in Calls("create_git_ref") : j < k

\* C1: when the lookup finds the repository under the owner, the run goes on:
\* branch seeding, the CI-workflow sync and branch protection are attempted
\* against the existing repository in that run.
C1_ExistingRepoContinues ==
  (pc = "exited" /\ LookupFoundRepo) =>
     SeedingAttempted /\ WorkflowSyncAttempted /\ ProtectionAttempted

\* C2: a second run after a first, failure-free, completed run leaves the
\* platform as the first run left it, creates nothing (no create call
\* succeeds), and its file steps are updates carrying the hash of the file the
\* first run wrote, never creates.
SecondRunAfterCleanFirst ==
  /\ run = 2 /\ pc = "exited" /\ failures = 0
  /\ ended[1].outcome = "completed"
C2_SecondRunIdempotent ==
  SecondRunAfterCleanFirst =>
    /\ repo = ended[1].repo /\ teams = ended[1].teams
    /\ \A k \in Calls("create_repo") \cup Calls("create_git_ref")
                \cup Calls("create_team") : calls[k].status # 200
    /\ Calls("create_file") = {}
    /\ \E k \in Calls("update_file") :
         /\ calls[k].arg = <<WORKFLOW, repo.default_branch>>
         /\ calls[k].status = 200
         /\ calls[k].sha =
              BlobSha(ended[1].repo.files[repo.default_branch][WORKFLOW])

\* C3: every set-branch-protection call for a branch comes after a successful
\* lookup of that branch in the same run.
C3_ProtectionAfterObservation ==
  \A k \in Calls("edit_protection") :
    \E j \in Calls("get_branch") :
      j < k /\ calls[j].arg = calls[k].arg /\ calls[j].status = 200
C3_Witness ==
  \E k \in Calls("edit_protection") : calls[k].status = 200

\* C4: at the end of a run, a failed add-member call has not kept the other
\* members of the same team from being attempted, nor the other team from
\* being processed (all its members attempted once its own grant succeeded),
\* nor the protection step from running afterwards.
TeamMembers(name) ==
  LET cfg == CHOOSE c \in Range(teams_config(users)) : c.name = name
  IN Range(cfg.members)
C4_MemberFailureIsLocal ==
  pc = "exited" =>
    \A k \in Calls("add_membership") :
      calls[k].status # 200 =>
        /\ \A u \in TeamMembers(calls[k].arg[1]) :
             Attempted("add_membership", <<calls[k].arg[1], u>>)
        /\ \A c \in Range(teams_config(users)) :
             /\ Attempted("get_teams", <<c.name>>)
             /\ Succeeded("set_repo_permission", <<c.name>>) =>
                  \A u \in Range(c.members) :
                    Attempted("add_membership", <<c.name, u>>)
        /\ \A n \in 1..Len(protections) :
             \E j \in Calls("get_branch") :
               j > k /\ calls[j].arg = <<protections[n].branch>>
C4_Witness ==
  /\ pc = "exited"
  /\ \E k \in Calls("add_membership") :
       /\ calls[k].status # 200
       /\ calls[k].arg = <<"l2", "alice">>
       /\ Succeeded("add_membership", <<"l2", "bob">>)
       /\ Succeeded("edit_protection", <<"main">>)

\* C5: at the end of a completed run in which no call failed, every branch of
\* the configured list that exists carries the workflow file with the content
\* of the default branch.
C5_WorkflowOnEverySeededBranch ==
  (pc = "exited" /\ outcome = "completed" /\ Failed = {}) =>
    \A n \in 1..Len(branch_names) :
      BranchExists(branch_names[n]) =>
        /\ repo.files[branch_names[n]][WORKFLOW] # Absent
        /\ repo.files[branch_names[n]][WORKFLOW] =
             repo.files[repo.default_branch][WORKFLOW]

\* C6: when the owner resolves to an individual account whose login is not
\* the authenticated one, the run issues no mutating call and ends there.
ResolvedAsIndividual == \E k \in Calls("get_user") : calls[k].status = 200
C6_MismatchBeforeMutation ==
  (ResolvedAsIndividual /\ ownerKind # "self") =>
    /\ Mutations = {}
    /\ \A k \in DOMAIN calls :
         calls[k].op \in {"get_organization", "get_user",
                          "get_authenticated_user"}
    /\ pc \in {"check_login", "return", "exited"}
C6_Witness ==
  /\ pc = "exited" /\ ownerKind = "other_user"
  /\ ResolvedAsIndividual
  /\ Succeeded("get_authenticated_user", <<>>)
  /\ outcome = "auth_mismatch"

\* C7: with three configured branch names (none the default branch), if exactly one create-ref call
\* fails with a non-conflict error and nothing else fails, the protection
\* step applies the policy to exactly the other two names and finds the
\* failed one missing.
C7_ProtectsExactlyTheCreated ==
  (/\ pc = "exited" /\ outcome = "completed"
   /\ Len(branch_names) = 3
   /\ repo.default_branch \notin Range(branch_names)
   /\ Cardinality(Failed) = 1
   /\ \A k \in Failed : calls[k].op = "create_git_ref") =>
    \A k \in Failed :
      LET failed == calls[k].arg[1]
          others == Range(branch_names) \ {failed}
      IN /\ \A b \in others : BranchExists(b)
         /\ { calls[j].arg[1] : j \in Calls("edit_protection") } = others
         /\ \E j \in Calls("get_branch") :
              j > k /\ calls[j].arg = <<failed>> /\ calls[j].status = NotFound

\* C8: a run whose repository step succeeded (created, or found existing)
\* ends completed with the protection step executed; a run that failed before
\* that issued no call of a later step.
RepositoryStepSucceeded == RepoCreated \/ LookupFoundRepo
C8_RepositoryReadyReachesDone ==
  pc = "exited" =>
    IF RepositoryStepSucceeded
    THEN outcome = "completed" /\ ProtectionAttempted
    ELSE \A k \in DOMAIN calls :
           calls[k].op \in {"get_organization", "get_user",
                            "get_authenticated_user", "get_repos",
                            "create_repo"}

\* C9: with one of GITHUB_TOKEN, OWNER_NAME, REPO_NAME unset or empty the run
\* ends without a single call to the platform.
RequiredMissing ==
  \E key \in {"GITHUB_TOKEN", "OWNER_NAME", "REPO_NAME"} :
    env[key] = "None" \/ env[key] = ""
C9_NoCallWithoutConfig ==
  RequiredMissing => calls = <<>> /\ pc \in {"main", "return", "exited"}
C9_Witness ==
  /\ pc = "exited" /\ outcome = "missing_env"
  /\ env.REPO_NAME = "" /\ env.GITHUB_TOKEN = "tok" /\ env.OWNER_NAME = "acme"

\* C10: the exit status of a finished run is non-zero exactly when the run
\* ended on a fatal failure before the repository was ready.
FatalOutcomes == {"missing_env", "owner_failed", "auth_mismatch",
                  "create_failed"}
C10_ExitStatusReportsFatal ==
  \A n \in DOMAIN ended :
    (ended[n].exit_status # 0) <=> (ended[n].outcome \in FatalOutcomes)
\* The step of main() a call belongs to, by the place that issued it.
StepOf(at) ==
  CASE at \in {"get_organization", "get_user", "check_login"} -> 1
    [] at \in {"get_repos", "create_repo"} -> 2
    [] at \in {"create_branches", "create_git_ref"} -> 3
    [] at \in {"get_teams", "create_team", "add_to_repos",
               "set_repo_permission", "add_membership"} -> 4
    [] at \in {"add_codeowners", "codeowners_create"} -> 5
    [] at \in {"add_ci_workflow", "workflow_create", "ci_get_branch",
               "ci_get_default", "ci_try_update", "ci_create"} -> 6
    [] at \in {"protect_get_branch", "edit_protection"} -> 7
InStep(n) == { k \in DOMAIN calls : StepOf(calls[k].at) = n }
ProtectionStepRan ==
  \A n \in 1..Len(protections) :
    \E k \in InStep(7) : calls[k].op = "get_branch"
                         /\ calls[k].arg = <<protections[n].branch>>

\* C11: for an organization with no identity configured, no team call is
\* issued, and a run that created the repository still goes through branch
\* seeding, the CODEOWNERS sync, the workflow sync and branch protection.
NoIdentityConfigured == env.USERS = NoneEnv \/ env.USERS = <<>>
C11_NoUsersSkipsTeamsOnly ==
  (ownerKind = "organization" /\ NoIdentityConfigured) =>
    /\ InStep(4) = {}
    /\ (pc = "exited" /\ RepoCreated /\ is_organization) =>
         /\ InStep(3) # {} \/ branch_names = <<>>
         /\ InStep(5) # {}
         /\ InStep(6) # {}
         /\ ProtectionStepRan
C11_Witness ==
  /\ pc = "exited" /\ ownerKind = "organization" /\ NoIdentityConfigured
  /\ outcome = "completed"
  /\ Succeeded("create_file", <<CODEOWNERS, repo.default_branch>>)
  /\ Succeeded("create_git_ref", <<"qa">>)
  /\ Succeeded("edit_protection", <<"qa">>)
\* C12: the calls of a run follow the order of the steps: owner resolution
\* (one organization lookup), the repository step (one listing, at most one
\* create), branch seeding, teams and CODEOWNERS (organization only), the
\* workflow sync (both kinds of owner), protection; nothing past the
\* repository step is issued unless the repository was created.
C12_StepsInOrder ==
  /\ \A k \in 1..(Len(calls) - 1) :
       StepOf(calls[k].at) <= StepOf(calls[k + 1].at)
  /\ calls # <<>> => calls[1].op = "get_organization"
  /\ \A k \in DOMAIN calls :
       calls[k].op \in {"get_organization", "get_user", "get_repos",
                        "create_repo"} =>
         \A j \in 1..(k - 1) : calls[j].op # calls[k].op
  /\ (\E k \in DOMAIN calls : StepOf(calls[k].at) >= 3) => RepoCreated
  /\ (\E k \in DOMAIN calls : StepOf(calls[k].at) \in {4, 5}) =>
       ownerKind = "organization"
  /\ (pc = "exited" /\ RepoCreated) =>
       /\ \E k \in DOMAIN calls : StepOf(calls[k].at) = 6
       /\ \E k \in DOMAIN calls : StepOf(calls[k].at) = 7
       /\ (ownerKind = "organization" /\ is_organization) =>
            \E k \in DOMAIN calls : StepOf(calls[k].at) = 5
C12_Witness ==
  /\ pc = "exited" /\ outcome = "completed"
  /\ \A n \in 1..7 : InStep(n) # {}
  /\ Failed = {}
\* C13: a create-file call is issued only right after a read of the same file
\* on the same branch that returned not-found; a read that fails otherwise,
\* or a failed update, is not followed by a create attempt.
C13_CreateOnlyAfterNotFound ==
  \A k \in Calls("create_file") :
    /\ k > 1
    /\ calls[k - 1].op = "get_contents"
    /\ calls[k - 1].arg = calls[k].arg
    /\ calls[k - 1].status = NotFound
\* C14: once branch seeding has read the default branch's head (one read), a
\* create-ref is attempted for every entry of the list, in order, whatever
\* the earlier ones returned, and each branch it creates holds the commit
\* that was read.
SeedingRead == { k \in InStep(3) : calls[k].op = "get_branch" }
SeedingOver == pc \notin {"main", "get_organization", "get_user",
                          "check_login", "get_repos", "create_repo",
                          "create_branches", "create_git_ref"}
RefCalls == SelectSeq(calls, LAMBDA c : c.op = "create_git_ref")
C14_EveryNameAttempted ==
  /\ Cardinality(SeedingRead) <= 1
  /\ Calls("create_git_ref") # {} =>
       \E k \in SeedingRead : calls[k].status = 200
                              /\ \A j \in Calls("create_git_ref") : k < j
  /\ (SeedingOver /\ \E k \in SeedingRead : calls[k].status = 200) =>
       LET refs == RefCalls
       IN /\ Len(refs) = Len(branch_names)
          /\ \A n \in 1..Len(refs) : refs[n].arg = <<branch_names[n]>>
  /\ InStep(6) = {} =>
       \A k \in Calls("create_git_ref") :
         calls[k].status = 200 =>
           /\ BranchExists(calls[k].arg[1])
           /\ repo.files[calls[k].arg[1]] = source_sha
           /\ source_sha[README] = Encode(readme_content)
C14_Witness ==
  /\ SeedingOver /\ Len(branch_names) = 3 /\ Len(RefCalls) = 3
  /\ RefCalls[1].status = 500
  /\ RefCalls[2].status = 200
  /\ RefCalls[3].status = Conflict
\* C15 as stated: at most one create-ref call per distinct branch name in a
\* run, and none for an empty name.
BlankNames == {"", " ", ","}
C15_OneRefPerDistinctName ==
  /\ \A j, k \in Calls("create_git_ref") :
       j # k => calls[j].arg # calls[k].arg
  /\ \A k \in Calls("create_git_ref") : calls[k].arg[1] \notin BlankNames

\* C15 as the code has it: blanks are dropped and entries are stripped, but a
\* repeated name is kept: one create-ref call per non-blank entry of the
\* list, the repeated one ending as already-exists when the first succeeded.
ConfiguredBranchText == GetEnv(env.BRANCH_NAMES, DefaultBranchNames)
Entries(name) ==
  { n \in DOMAIN ConfiguredBranchText : ConfiguredBranchText[n] = name }
RefsFor(name) == { k \in Calls("create_git_ref") : calls[k].arg = <<name>> }
C15_OneRefPerEntry ==
  \A k \in Calls("create_git_ref") :
    LET name == calls[k].arg[1]
    IN /\ name \notin BlankNames
       /\ Cardinality(RefsFor(name)) <= Cardinality(Entries(name))
       /\ (SeedingOver => Cardinality(RefsFor(name)) = Cardinality(Entries(name)))
       /\ \A j \in RefsFor(name) :
            (j < k /\ calls[j].status = 200) => calls[k].status = Conflict
C15_Witness ==
  /\ SeedingOver
  /\ Cardinality(RefsFor("stg")) = 2
  /\ \E j, k \in RefsFor("stg") :
       j < k /\ calls[j].status = 200 /\ calls[k].status = Conflict
  /\ env.BRANCH_NAMES = <<"stg", ",", ",", "stg">>
\* C16 as stated: after an error of the repository step (the listing or the
\* create) the run issues no further call.
RepositoryStepErrors ==
  { k \in Calls("get_repos") \cup Calls("create_repo") : calls[k].status # 200 }
ConfiguredUsers == ParseList(GetEnv(env.USERS, <<>>))
Converged ==
  /\ repo.exists
  /\ \A b \in Range(ParseList(ConfiguredBranchText)) : BranchExists(b)
  /\ FilePresent(repo.default_branch, WORKFLOW)
  /\ \A b \in Range(sync_branches) :
       BranchExists(b) =>
         repo.files[b][WORKFLOW] = repo.files[repo.default_branch][WORKFLOW]
  /\ \A n \in 1..Len(protections) :
       BranchExists(protections[n].branch) =>
         /\ protections[n].branch \in DOMAIN repo.protection
         /\ repo.protection[protections[n].branch] = Policy(protections[n])
  /\ ownerKind = "organization" =>
       /\ FilePresent(repo.default_branch, CODEOWNERS)
       /\ ConfiguredUsers # <<>> =>
            \A c \in Range(teams_config(ConfiguredUsers)) :
              \E t \in DOMAIN teams :
                /\ Lower(t) = c.name
                /\ teams[t].permission = "push"
                /\ Range(c.members) \subseteq teams[t].members
CleanRunConverged ==
  (run = 1 /\ pc = "exited" /\ outcome = "completed" /\ Failed = {})
    => Converged

\* C17: after a first run that created the repository (whatever local step
\* failed in it), a second run in which no call fails leaves the platform in
\* the state a single failure-free run leaves.
C17_RetryConverges ==
  (run = 2 /\ pc = "exited" /\ ended[1].outcome = "completed" /\ Failed = {})
    => Converged
\* C18: every add-member call for a team comes after that team's successful
\* grant calls (so no add-member outcome can affect the grant); l1 is only
\* ever given the first configured identity and l2 only configured ones, and
\* once the teams step is over a team whose grant succeeded has had exactly
\* those identities attempted.
MembersAttempted(t) ==
  { calls[k].arg[2] : k \in { j \in Calls("add_membership") : calls[j].arg[1] = t } }
TeamsOver == pc \notin {"get_teams", "create_team", "add_to_repos",
                        "set_repo_permission", "add_membership"}
C18_GrantBeforeMembers ==
  /\ \A k \in Calls("add_membership") :
       LET t == calls[k].arg[1]
       IN /\ \E j \in Calls("add_to_repos") :
               j < k /\ calls[j].arg = <<t>> /\ calls[j].status = 200
          /\ \E j \in Calls("set_repo_permission") :
               j < k /\ calls[j].arg = <<t>> /\ calls[j].status = 200
          /\ \A j \in Calls("add_to_repos") \cup Calls("set_repo_permission") :
               calls[j].arg = <<t>> => j < k
          /\ t \in {"l1", "l2"}
          /\ t = "l1" => calls[k].arg[2] = ConfiguredUsers[1]
          /\ t = "l2" => calls[k].arg[2] \in Range(ConfiguredUsers)
          /\ \E n \in DOMAIN teams :
               Lower(n) = t /\ teams[n].permission = "push"
  /\ TeamsOver =>
       /\ Succeeded("set_repo_permission", <<"l1">>) =>
            MembersAttempted("l1") = {ConfiguredUsers[1]}
       /\ Succeeded("set_repo_permission", <<"l2">>) =>
            MembersAttempted("l2") = Range(ConfiguredUsers)
C18_Witness ==
  /\ TeamsOver
  /\ ConfiguredUsers = <<"alice", "bob">>
  /\ Succeeded("add_membership", <<"l1", "alice">>)
  /\ \E k \in Calls("add_membership") :
       calls[k].arg = <<"l2", "alice">> /\ calls[k].status = 500
  /\ Succeeded("add_membership", <<"l2", "bob">>)
  /\ teams["l2"].permission = "push"
  /\ teams["l2"].members = {"bob"}
\* C19: once the protection step is over, every branch of the protections
\* table has been looked up, whatever the earlier lookups and protection
\* calls returned, and protected if its lookup succeeded; every protection in
\* force binds administrators, requires the "build" context and the review
\* count of its branch (dev 1, qa 1, main 2).
ProtectionOver == pc \in {"return", "exited"} /\ RepoCreated
ReviewCount(b) == CASE b = "dev" -> 1 [] b = "qa" -> 1 [] b = "main" -> 2
C19_ProtectionPerBranch ==
  /\ ProtectionOver =>
       \A b \in {"dev", "qa", "main"} :
         /\ \E k \in InStep(7) :
              calls[k].op = "get_branch" /\ calls[k].arg = <<b>>
         /\ (\E k \in InStep(7) : /\ calls[k].op = "get_branch"
                                  /\ calls[k].arg = <<b>>
                                  /\ calls[k].status = 200)
              => Attempted("edit_protection", <<b>>)
  /\ \A k \in Calls("edit_protection") :
       calls[k].status = 200 =>
         LET b == calls[k].arg[1]
         IN /\ b \in DOMAIN repo.protection
            /\ repo.protection[b].enforce_admins = TRUE
            /\ "build" \in repo.protection[b].contexts
            /\ repo.protection[b].required_approving_review_count =
                 ReviewCount(b)
            /\ repo.protection[b].require_code_owner_reviews = TRUE
C19_Witness ==
  /\ ProtectionOver
  /\ \E k \in Calls("edit_protection") :
       calls[k].arg = <<"dev">> /\ calls[k].status = 500
  /\ Succeeded("edit_protection", <<"qa">>)
  /\ \E k \in InStep(7) : /\ calls[k].op = "get_branch"
                          /\ calls[k].arg = <<"main">>
                          /\ calls[k].status = NotFound
C19_WitnessNotFoundFirst ==
  /\ ProtectionOver
  /\ \E k \in InStep(7) : /\ calls[k].op = "get_branch"
                          /\ calls[k].arg = <<"dev">>
                          /\ calls[k].status = NotFound
  /\ Succeeded("edit_protection", <<"qa">>)
  /\ Succeeded("edit_protection", <<"main">>)

\* C20: when the create of the workflow file on the default branch fails,
\* it is the last call of the workflow step, and the protection step still
\* runs after it.
DefaultWorkflowFailed ==
  { k \in Calls("create_file") :
      calls[k].at = "workflow_create" /\ calls[k].status # 200 }
C20_DefaultFailureSkipsSync ==
  \A k \in DefaultWorkflowFailed :
    /\ \A j \in InStep(6) : j <= k
    /\ pc \in {"protect_get_branch", "edit_protection", "return", "exited"}
    /\ pc \in {"return", "exited"} =>
         \A b \in {"dev", "qa", "main"} :
           \E j \in InStep(7) :
             j > k /\ calls[j].op = "get_branch" /\ calls[j].arg = <<b>>
C20_Witness ==
  /\ pc = "exited"
  /\ DefaultWorkflowFailed # {}
  /\ BranchExists("qa") /\ repo.default_branch = "main"
  /\ Succeeded("edit_protection", <<"qa">>)
====
